---- MODULE Spec2Model ----
(***************************************************************************)
(* Yumm-Yard-Tracker: the sales ledger (database.py), the Tracker page's   *)
(* order builder, live-sales cache and day-close protocol (1_Tracker.py)   *)
(* and the history/menu handlers of pages/2_Menu_Management.py.            *)
(*                                                                         *)
(* Prices are REAL columns in the store; they are modelled as integers     *)
(* (rupees), so price * qty is the exact product the code computes.        *)
(* A timestamp is the reading of the wall clock (now); sale_date is the    *)
(* reading of the calendar (today).                                        *)
(***************************************************************************)
EXTENDS Integers, Sequences, FiniteSets, TLC

\* ---------------------------------------------------------------- bounds
MaxTime == 2
MaxDay == 2
MaxQty == 2
MaxExpenses == 1

Channels == {"Offline", "Online"}
Items == {"Tea", "Coffee"}
Prices == {20, 30}
Amounts == {50}
Times == 1..MaxTime
Days == 1..MaxDay

\* Python's None for a date filter / a falsy string filter
NoDate == 0
NoStr == ""

VARIABLES
    sales,                \* store: rows of table sales
    menus,                \* store: table menus, channel -> (item -> price)
    expenses,             \* store: rows of table expenses
    now,                  \* wall clock (pd.Timestamp.now())
    today,                \* calendar (date.today())
    session_keys,         \* which cache keys st.session_state holds
    confirm_remove_sale,  \* st.session_state.*
    confirm_clear_log,
    confirm_end_day,
    sale_to_remove,
    current_order,        \* channel -> insertion-ordered lines (item, qty)
    live_sales_df,        \* st.session_state.live_sales_df (cached live rows)
    menus_cache,          \* st.session_state.menus
    confirm_delete_history,
    date_to_delete,
    pc,                   \* position of the Log Order handler
    lines,                \* lines the Log Order loop has still to write
    ledger_before,        \* history: the ledger when the running loop started
    log_ch,               \* channel of the running Log Order loop
    error                 \* the exception the last run ended with, <<>> if none

storeVars == <<sales, menus, expenses>>
clockVars == <<now, today>>
confirmVars == <<confirm_remove_sale, confirm_clear_log, confirm_end_day,
                 sale_to_remove, confirm_delete_history, date_to_delete>>
commitVars == <<pc, lines, ledger_before, log_ch>>
vars == <<sales, menus, expenses, now, today, session_keys, confirm_remove_sale,
          confirm_clear_log, confirm_end_day, sale_to_remove, current_order,
          live_sales_df, menus_cache, confirm_delete_history, date_to_delete,
          pc, lines, ledger_before, log_ch, error>>

\* ------------------------------------------------------------ database.py

EmptyMenu == [i \in {} |-> 0]

\* dict.get(key, default)
DictGet(d, k, default) == IF k \in DOMAIN d THEN d[k] ELSE default

\* get_menus(): both channels, keys present even when empty
get_menus(m) == [ch \in Channels |-> m[ch]]

\* INSERT OR REPLACE INTO menus
add_menu_item(m, item_name, price, channel) ==
    [m EXCEPT ![channel] =
        [i \in (DOMAIN m[channel]) \cup {item_name} |->
            IF i = item_name THEN price ELSE m[channel][i]]]

\* DELETE FROM menus WHERE item_name = ? AND channel = ?
delete_menu_item(m, item_name, channel) ==
    [m EXCEPT ![channel] =
        [i \in (DOMAIN m[channel]) \ {item_name} |-> m[channel][i]]]

Timestamps(s) == {r.timestamp : r \in s}

\* mutant: the INSERT writes another status literal
SaleRow_wrong_status(sale_dict, d) ==
    [timestamp |-> sale_dict.Timestamp,
     item_name |-> sale_dict.Item,
     quantity |-> sale_dict.Quantity,
     price_per_item |-> sale_dict.Price,
     total_sale |-> sale_dict.Total,
     channel |-> sale_dict.Channel,
     sale_date |-> d,
     status |-> "Live"]

\* the row log_sale inserts: status 'live', sale_date = date.today()
SaleRow(sale_dict, d) ==
    [timestamp |-> sale_dict.Timestamp,
     item_name |-> sale_dict.Item,
     quantity |-> sale_dict.Quantity,
     price_per_item |-> sale_dict.Price,
     total_sale |-> sale_dict.Total,
     channel |-> sale_dict.Channel,
     sale_date |-> d,
     status |-> "live"]

\* mutant: timestamp is not a key of the table
log_sale_fails_no_key(s, sale_dict) == FALSE

\* the INSERT raises on a PRIMARY KEY (timestamp) collision
log_sale_fails(s, sale_dict) == sale_dict.Timestamp \in Timestamps(s)

log_sale(s, sale_dict, d) ==
    IF log_sale_fails(s, sale_dict) THEN s ELSE s \cup {SaleRow(sale_dict, d)}

\* mutant: the lower date bound is exclusive
get_sales_open_start(s, status, channel, start_date, end_date) ==
    {r \in s :
        /\ (status # NoStr => r.status = status)
        /\ (channel # NoStr => r.channel = channel)
        /\ (start_date # NoDate => r.sale_date > start_date)
        /\ (end_date # NoDate => r.sale_date <= end_date)}

\* SELECT * FROM sales WHERE 1=1 [AND status = ?] [AND channel = ?] ...
get_sales(s, status, channel, start_date, end_date) ==
    {r \in s :
        /\ (status # NoStr => r.status = status)
        /\ (channel # NoStr => r.channel = channel)
        /\ (start_date # NoDate => r.sale_date >= start_date)
        /\ (end_date # NoDate => r.sale_date <= end_date)}

\* mutant: the DELETE takes every sale up to the timestamp
delete_sale_by_timestamp_upto(s, ts) == {r \in s : r.timestamp > ts}

\* mutant: the DELETE is restricted to live sales
delete_sale_by_timestamp_live_only(s, ts) ==
    {r \in s : ~(r.timestamp = ts /\ r.status = "live")}

\* DELETE FROM sales WHERE timestamp = ?
delete_sale_by_timestamp(s, ts) == {r \in s : r.timestamp # ts}

\* mutant: the DELETE has no WHERE clause
clear_live_sales_all(s) == {}

\* DELETE FROM sales WHERE status = 'live'
clear_live_sales(s) == {r \in s : r.status # "live"}

\* mutant: only the sales logged today are archived
archive_live_sales_today_only(s) ==
    {IF r.status = "live" /\ r.sale_date = today
     THEN [r EXCEPT !.status = "archived"] ELSE r : r \in s}

\* mutant: the UPDATE swaps the two statuses
archive_live_sales_swap(s) ==
    {[r EXCEPT !.status = IF r.status = "live" THEN "archived" ELSE "live"] : r \in s}

\* mutant: the table is rewritten from the live rows alone
archive_live_sales_drop_history(s) ==
    {[r EXCEPT !.status = "archived"] : r \in {x \in s : x.status = "live"}}

\* mutant: the UPDATE also moves the archived rows on to a third status
archive_live_sales_cascade(s) ==
    {[r EXCEPT !.status = IF r.status = "live" THEN "archived" ELSE "closed"] : r \in s}

\* UPDATE sales SET status = 'archived' WHERE status = 'live'
archive_live_sales(s) ==
    {IF r.status = "live" THEN [r EXCEPT !.status = "archived"] ELSE r : r \in s}

\* mutant: the rows are updated one by one and the failure strikes midway
archive_live_sales_failed_midway(s) ==
    {IF r.status = "live" /\ (\A x \in s : x.status = "live" => r.timestamp <= x.timestamp)
     THEN [r EXCEPT !.status = "archived"] ELSE r : r \in s}

\* the single UPDATE statement when the store cannot be reached: it raises
\* and no row is changed
archive_live_sales_failed(s) == s

RECURSIVE SortDesc(_)
SortDesc(S) ==
    IF S = {} THEN <<>>
    ELSE LET m == CHOOSE x \in S : \A y \in S : y <= x
         IN <<m>> \o SortDesc(S \ {m})

\* mutant: ORDER BY sale_date ASC
get_archived_dates_asc(s) ==
    LET q == SortDesc({r.sale_date : r \in {x \in s : x.status = "archived"}})
    IN [i \in 1..Len(q) |-> q[Len(q) + 1 - i]]

\* mutant: the dates are taken from the live rows
get_archived_dates_of_live(s) ==
    SortDesc({r.sale_date : r \in {x \in s : x.status = "live"}})

\* SELECT DISTINCT sale_date ... WHERE status = 'archived' ORDER BY sale_date DESC
get_archived_dates(s) ==
    SortDesc({r.sale_date : r \in {x \in s : x.status = "archived"}})

\* mutant: the DELETE does not look at the status
delete_sales_by_date(s, d) == {r \in s : r.sale_date # d}

\* DELETE FROM sales WHERE status = 'archived' AND sale_date = ?
delete_archived_sales_by_date(s, d) ==
    {r \in s : ~(r.status = "archived" /\ r.sale_date = d)}

SeqToSet(q) == {q[i] : i \in DOMAIN q}

\* ---------------------------------------------------------- expense ledger
\* database.py of this revision has no expense functions; the pages call
\* db.get_expenses and db.delete_archived_expenses_by_date.  The ledger is
\* modelled from the specification (sections 3 and 4.3).

NextExpenseId(e) ==
    IF e = {} THEN 1
    ELSE 1 + (CHOOSE n \in {x.id : x \in e} : \A x \in e : x.id <= n)

\* append: a new expense has status live
add_expense(e, amount, d) ==
    e \cup {[id |-> NextExpenseId(e), expense_date |-> d, amount |-> amount,
             status |-> "live"]}

\* deleteArchivedByDate over the expense ledger
delete_archived_expenses_by_date(e, d) ==
    {x \in e : ~(x.status = "archived" /\ x.expense_date = d)}

\* ------------------------------------------------------- order builder

\* mutant: the + button adds two
OrderPlus_two(o, item) ==
    IF \E i \in DOMAIN o : o[i].item = item
    THEN [i \in DOMAIN o |->
            IF o[i].item = item THEN [o[i] EXCEPT !.qty = @ + 2] ELSE o[i]]
    ELSE Append(o, [item |-> item, qty |-> 2])

\* mutant: a new line starts at quantity 0
OrderPlus_from_zero(o, item) ==
    IF \E i \in DOMAIN o : o[i].item = item
    THEN [i \in DOMAIN o |->
            IF o[i].item = item THEN [o[i] EXCEPT !.qty = @ + 1] ELSE o[i]]
    ELSE Append(o, [item |-> item, qty |-> 0])

\* current_order[item] = current_order.get(item, 0) + 1  (dict keeps insertion order)
OrderPlus(o, item) ==
    IF \E i \in DOMAIN o : o[i].item = item
    THEN [i \in DOMAIN o |->
            IF o[i].item = item THEN [o[i] EXCEPT !.qty = @ + 1] ELSE o[i]]
    ELSE Append(o, [item |-> item, qty |-> 1])

\* mutant: the x button takes one off the quantity
OrderPop_decrement(o, item) ==
    SelectSeq([i \in DOMAIN o |->
                  IF o[i].item = item THEN [o[i] EXCEPT !.qty = @ - 1] ELSE o[i]],
              LAMBDA l : l.qty > 0)

\* current_order.pop(item, None)
OrderPop(o, item) == SelectSeq(o, LAMBDA l : l.item # item)

OrderItems(o) == {o[i].item : i \in DOMAIN o}

OrderQty(o, item) ==
    IF item \in OrderItems(o)
    THEN (CHOOSE l \in SeqToSet(o) : l.item = item).qty
    ELSE 0

\* mutant: the line total forgets the quantity
SaleRecord_unit_total(line, menu, ch, ts) ==
    LET price == DictGet(menu, line.item, 0)
    IN [Timestamp |-> ts,
        Item |-> line.item,
        Quantity |-> line.qty,
        Price |-> price,
        Total |-> price,
        Channel |-> ch]

\* mutant: every line is written as a single unit
SaleRecord_single_qty(line, menu, ch, ts) ==
    LET price == DictGet(menu, line.item, 0)
    IN [Timestamp |-> ts,
        Item |-> line.item,
        Quantity |-> 1,
        Price |-> price,
        Total |-> price,
        Channel |-> ch]

\* the sale_record dict the Log Order loop builds for one line
SaleRecord(line, menu, ch, ts) ==
    LET price == DictGet(menu, line.item, 0)
    IN [Timestamp |-> ts,
        Item |-> line.item,
        Quantity |-> line.qty,
        Price |-> price,
        Total |-> price * line.qty,
        Channel |-> ch]

\* the new_row appended to the cached live_sales_df
NewRow(sale_record, d) ==
    [timestamp |-> sale_record.Timestamp,
     item_name |-> sale_record.Item,
     quantity |-> sale_record.Quantity,
     price_per_item |-> sale_record.Price,
     total_sale |-> sale_record.Total,
     channel |-> sale_record.Channel,
     sale_date |-> d,
     status |-> "live"]

\* the exception a run ends with: the failing db call and the error kind
NoError == <<>>
Raised(call, kind) == <<call, kind>>
DuplicateKey == "DuplicateKey"
StoreUnavailable == "StoreUnavailable"

\* ------------------------------------------------------------------ Init

\* the menus table the app starts on: one item, sold in store or online
InitialMenus ==
    {[ch \in Channels |-> IF ch = c THEN [i \in {"Tea"} |-> 20] ELSE EmptyMenu] :
        c \in Channels}

\* the menus table right after init_db() on a new database
FreshMenus == [ch \in Channels |-> EmptyMenu]

\* a menus table with two items in store
TwoItemMenus ==
    [ch \in Channels |->
        IF ch = "Offline"
        THEN [i \in {"Tea", "Coffee"} |-> IF i = "Tea" THEN 20 ELSE 30]
        ELSE EmptyMenu]

\* a menus table with items on both channels
BothChannelMenus ==
    [ch \in Channels |->
        IF ch = "Offline"
        THEN [i \in {"Tea", "Coffee"} |-> IF i = "Tea" THEN 20 ELSE 30]
        ELSE [i \in {"Tea"} |-> 30]]

InitWith(m) ==
    /\ sales = {}
    /\ menus = m
    /\ expenses = {}
    /\ now = 1
    /\ today = 1
    /\ session_keys = {}
    /\ confirm_remove_sale = FALSE
    /\ confirm_clear_log = FALSE
    /\ confirm_end_day = FALSE
    /\ sale_to_remove = 0
    /\ current_order = [ch \in Channels |-> <<>>]
    /\ live_sales_df = {}
    /\ menus_cache = [ch \in Channels |-> EmptyMenu]
    /\ confirm_delete_history = FALSE
    /\ date_to_delete = NoDate
    /\ pc = "idle"
    /\ lines = <<>>
    /\ ledger_before = {}
    /\ log_ch = "Offline"
    /\ error = NoError

Init == \E m \in InitialMenus : InitWith(m)

InitTwoItems == InitWith(TwoItemMenus)

InitBothChannels == InitWith(BothChannelMenus)

InitFresh == InitWith(FreshMenus)

\* ----------------------------------------------------------------- clock

\* time passes between two readings of pd.Timestamp.now()
Tick ==
    /\ now < MaxTime
    /\ now' = now + 1
    /\ UNCHANGED <<error, storeVars, today, session_keys, confirmVars, current_order,
                   live_sales_df, menus_cache, commitVars>>

\* midnight passes: date.today() and the clock both move on
NextDay ==
    /\ today < MaxDay
    /\ now < MaxTime
    /\ today' = today + 1
    /\ now' = now + 1
    /\ UNCHANGED <<error, storeVars, session_keys, confirmVars, current_order,
                   live_sales_df, menus_cache, commitVars>>

\* -------------------------------------------------------------- page runs

\* a run of 1_Tracker.py: the live-sales and menu caches are loaded only
\* when st.session_state does not hold them yet
OpenTracker ==
    /\ pc = "idle"
    /\ live_sales_df' =
         IF "live_sales_df" \in session_keys THEN live_sales_df
         ELSE get_sales(sales, "live", NoStr, NoDate, NoDate)
    /\ menus_cache' =
         IF "menus" \in session_keys THEN menus_cache ELSE get_menus(menus)
    /\ session_keys' = session_keys \cup {"live_sales_df", "menus"}
    /\ error' = NoError
    /\ UNCHANGED <<storeVars, clockVars, confirmVars, current_order, commitVars>>

\* a run of pages/2_Menu_Management.py: only the menu cache is loaded
OpenMenuManagement ==
    /\ pc = "idle"
    /\ menus_cache' =
         IF "menus" \in session_keys THEN menus_cache ELSE get_menus(menus)
    /\ session_keys' = session_keys \cup {"menus"}
    /\ error' = NoError
    /\ UNCHANGED <<storeVars, clockVars, confirmVars, current_order,
                   live_sales_df, commitVars>>

\* a full browser refresh starts a new session: st.session_state is empty
NewSession ==
    /\ pc = "idle"
    /\ session_keys # {}
    /\ session_keys' = {}
    /\ confirm_remove_sale' = FALSE
    /\ confirm_clear_log' = FALSE
    /\ confirm_end_day' = FALSE
    /\ sale_to_remove' = 0
    /\ current_order' = [ch \in Channels |-> <<>>]
    /\ live_sales_df' = {}
    /\ menus_cache' = [ch \in Channels |-> EmptyMenu]
    /\ confirm_delete_history' = FALSE
    /\ date_to_delete' = NoDate
    /\ error' = NoError
    /\ UNCHANGED <<storeVars, clockVars, commitVars>>

\* the Tracker page has been rendered in this session and no handler runs
TrackerShown == pc = "idle" /\ "live_sales_df" \in session_keys

\* the POS controls of a channel's tab are rendered (its menu is not empty)
TabShown(ch) == TrackerShown /\ DOMAIN menus_cache[ch] # {}

MenuPageShown == pc = "idle" /\ "menus" \in session_keys

\* get_top_items' default limit, and the limit the Tracker passes
TopLimit == 5

\* COUNT(*) of the sales rows of an item on a channel, live and archived
Score(s, channel, item_name) ==
    Cardinality({r \in s : r.channel = channel /\ r.item_name = item_name})

\* GROUP BY item_name ORDER BY score DESC: the items sold on the channel by
\* descending number of rows; SQL leaves the order of equal scores open
Ranked(s, channel) ==
    LET sold == {r.item_name : r \in {q \in s : q.channel = channel}}
        n == Cardinality(sold)
    IN {q \in [1..n -> sold] :
            /\ \A i \in 1..n : \A j \in 1..n : i # j => q[i] # q[j]
            /\ \A i \in 1..n : \A j \in 1..n :
                   i < j => Score(s, channel, q[i]) >= Score(s, channel, q[j])}

\* get_top_items(channel, limit): the lists the call can return ([] when the
\* channel has no sale)
get_top_items(s, channel, limit) ==
    {SubSeq(q, 1, IF Len(q) < limit THEN Len(q) ELSE limit) : q \in Ranked(s, channel)}

\* the filtered menu of the default view (empty search box): the top items
\* that are in the menu, or, without top items, the menu's first five
DefaultViews(menu, top_items) ==
    IF top_items # <<>>
    THEN {{item \in SeqToSet(top_items) : item \in DOMAIN menu}}
    ELSE {v \in SUBSET (DOMAIN menu) :
              Cardinality(v) = IF Cardinality(DOMAIN menu) < TopLimit
                               THEN Cardinality(DOMAIN menu) ELSE TopLimit}

\* ------------------------------------------------------ default menu view

\* a run of the Tracker with an empty search box renders the tab's default
\* view and calls db.get_top_items(channel, 5)
TopItemsQuery(ch) ==
    /\ TabShown(ch)
    /\ pc' = "top_items"
    /\ error' = NoError
    /\ UNCHANGED <<storeVars, clockVars, session_keys, confirmVars, current_order,
                   live_sales_df, menus_cache, lines, ledger_before, log_ch>>

\* get_top_items sends its ranking query with a bound LIMIT; when that
\* statement raises, the except branch goes on to the query without LIMIT
TopItemsFirst(store_ok) ==
    /\ pc = "top_items"
    /\ pc' = IF store_ok THEN "idle" ELSE "top_items_fallback"
    /\ error' = NoError
    /\ UNCHANGED <<storeVars, clockVars, session_keys, confirmVars, current_order,
                   live_sales_df, menus_cache, lines, ledger_before, log_ch>>

\* the second statement; when it raises too, get_top_items raises and the
\* Tracker's except branch goes on with top_items = []
TopItemsFallback(store_ok) ==
    /\ pc = "top_items_fallback"
    /\ pc' = "idle"
    /\ error' = NoError
    /\ UNCHANGED <<storeVars, clockVars, session_keys, confirmVars, current_order,
                   live_sales_df, menus_cache, lines, ledger_before, log_ch>>

\* --------------------------------------------------- order builder handlers

\* the + button of a menu row
Plus(ch, item) ==
    /\ TabShown(ch)
    /\ item \in DOMAIN menus_cache[ch]
    /\ OrderQty(current_order[ch], item) < MaxQty
    /\ current_order' = [current_order EXCEPT ![ch] = OrderPlus(@, item)]
    /\ error' = NoError
    /\ UNCHANGED <<storeVars, clockVars, session_keys, confirmVars,
                   live_sales_df, menus_cache, commitVars>>

\* the x button of a menu row: pops the item when it is in the order
MenuRemove(ch, item) ==
    /\ TabShown(ch)
    /\ item \in DOMAIN menus_cache[ch]
    /\ current_order' =
         IF item \in OrderItems(current_order[ch])
         THEN [current_order EXCEPT ![ch] = OrderPop(@, item)]
         ELSE current_order
    /\ error' = NoError
    /\ UNCHANGED <<storeVars, clockVars, session_keys, confirmVars,
                   live_sales_df, menus_cache, commitVars>>

\* the x button of an order-summary row
SummaryRemove(ch, item) ==
    /\ TabShown(ch)
    /\ item \in OrderItems(current_order[ch])
    /\ current_order' = [current_order EXCEPT ![ch] = OrderPop(@, item)]
    /\ error' = NoError
    /\ UNCHANGED <<storeVars, clockVars, session_keys, confirmVars,
                   live_sales_df, menus_cache, commitVars>>

\* Clear Order
ClearOrder(ch) ==
    /\ TabShown(ch)
    /\ current_order[ch] # <<>>
    /\ current_order' = [current_order EXCEPT ![ch] = <<>>]
    /\ error' = NoError
    /\ UNCHANGED <<storeVars, clockVars, session_keys, confirmVars,
                   live_sales_df, menus_cache, commitVars>>

\* Log Order is clicked: the loop starts over list(order.items())
LogOrderClick(ch) ==
    /\ TabShown(ch)
    /\ current_order[ch] # <<>>
    /\ pc' = "logging"
    /\ lines' = current_order[ch]
    /\ ledger_before' = sales
    /\ log_ch' = ch
    /\ error' = NoError
    /\ UNCHANGED <<storeVars, clockVars, session_keys, confirmVars,
                   current_order, live_sales_df, menus_cache>>

\* mutant: a failing line takes back the lines written before it
LogOrderLine_rollback(store_ok) ==
    /\ pc = "logging"
    /\ lines # <<>>
    /\ LET sale_record == SaleRecord(Head(lines), menus_cache[log_ch], log_ch, now)
       IN IF store_ok /\ ~log_sale_fails(sales, sale_record)
          THEN /\ sales' = log_sale(sales, sale_record, today)
               /\ live_sales_df' = live_sales_df \cup {NewRow(sale_record, today)}
               /\ lines' = Tail(lines)
               /\ pc' = IF Tail(lines) = <<>> THEN "idle" ELSE "logging"
               /\ ledger_before' = IF Tail(lines) = <<>> THEN {} ELSE ledger_before
               /\ current_order' =
                    IF Tail(lines) = <<>>
                    THEN [current_order EXCEPT ![log_ch] = <<>>]
                    ELSE current_order
               /\ error' = NoError
          ELSE /\ pc' = "idle"
               /\ lines' = <<>>
               /\ ledger_before' = {}
               /\ error' = Raised("log_sale",
                                 IF store_ok THEN DuplicateKey ELSE StoreUnavailable)
               /\ sales' = ledger_before
               /\ live_sales_df' = live_sales_df \cap ledger_before
               /\ UNCHANGED current_order
    /\ UNCHANGED <<menus, expenses, clockVars, session_keys, confirmVars,
                   menus_cache, log_ch>>

\* one iteration of the Log Order loop: db.log_sale, then the cache append;
\* after the last line the order is emptied.  A failing db.log_sale (store
\* unreachable, or the INSERT's key collision) raises out of the handler.
LogOrderLine(store_ok) ==
    /\ pc = "logging"
    /\ lines # <<>>
    /\ LET sale_record == SaleRecord(Head(lines), menus_cache[log_ch], log_ch, now)
       IN IF store_ok /\ ~log_sale_fails(sales, sale_record)
          THEN /\ sales' = log_sale(sales, sale_record, today)
               /\ live_sales_df' = live_sales_df \cup {NewRow(sale_record, today)}
               /\ lines' = Tail(lines)
               /\ pc' = IF Tail(lines) = <<>> THEN "idle" ELSE "logging"
               /\ ledger_before' = IF Tail(lines) = <<>> THEN {} ELSE ledger_before
               /\ current_order' =
                    IF Tail(lines) = <<>>
                    THEN [current_order EXCEPT ![log_ch] = <<>>]
                    ELSE current_order
               /\ error' = NoError
          ELSE /\ pc' = "idle"
               /\ lines' = <<>>
               /\ ledger_before' = {}
               /\ error' = Raised("log_sale",
                                 IF store_ok THEN DuplicateKey ELSE StoreUnavailable)
               /\ UNCHANGED <<sales, live_sales_df, current_order>>
    /\ UNCHANGED <<menus, expenses, clockVars, session_keys, confirmVars,
                   menus_cache, log_ch>>

\* the same iteration when midnight falls between the two readings of the
\* calendar: date.today() inside db.log_sale (the stored sale_date) and
\* date.today() for new_row (the cached sale_date)
LogOrderLineOverMidnight ==
    /\ pc = "logging"
    /\ lines # <<>>
    /\ today < MaxDay
    /\ now < MaxTime
    /\ LET sale_record == SaleRecord(Head(lines), menus_cache[log_ch], log_ch, now)
       IN /\ ~log_sale_fails(sales, sale_record)
          /\ sales' = log_sale(sales, sale_record, today)
          /\ live_sales_df' = live_sales_df \cup {NewRow(sale_record, today + 1)}
    /\ today' = today + 1
    /\ now' = now + 1
    /\ lines' = Tail(lines)
    /\ pc' = IF Tail(lines) = <<>> THEN "idle" ELSE "logging"
    /\ ledger_before' = IF Tail(lines) = <<>> THEN {} ELSE ledger_before
    /\ current_order' =
         IF Tail(lines) = <<>>
         THEN [current_order EXCEPT ![log_ch] = <<>>]
         ELSE current_order
    /\ error' = NoError
    /\ UNCHANGED <<menus, expenses, session_keys, confirmVars, menus_cache, log_ch>>

\* ------------------------------------------------------ live corrections

\* Remove Selected Sale: the selectbox offers the cached rows of both channels
RemoveSelectedSale(ts) ==
    /\ TrackerShown
    /\ ts \in Timestamps({r \in live_sales_df : r.channel \in Channels})
    /\ confirm_remove_sale' = TRUE
    /\ sale_to_remove' = ts
    /\ error' = NoError
    /\ UNCHANGED <<storeVars, clockVars, session_keys, confirm_clear_log,
                   confirm_end_day, confirm_delete_history, date_to_delete,
                   current_order, live_sales_df, menus_cache, commitVars>>

\* the confirmation is rendered only while the cached view has rows
RemoveConfirmShown ==
    /\ TrackerShown
    /\ live_sales_df # {}
    /\ confirm_remove_sale

\* Yes, Remove It
RemoveYes(store_ok) ==
    /\ RemoveConfirmShown
    /\ IF store_ok
       THEN /\ sales' = delete_sale_by_timestamp(sales, sale_to_remove)
            /\ live_sales_df' = {r \in live_sales_df : r.timestamp # sale_to_remove}
            /\ confirm_remove_sale' = FALSE
       ELSE UNCHANGED <<sales, live_sales_df, confirm_remove_sale>>
    /\ error' = IF store_ok THEN NoError ELSE Raised("delete_sale_by_timestamp", StoreUnavailable)
    /\ UNCHANGED <<menus, expenses, clockVars, session_keys, confirm_clear_log,
                   confirm_end_day, sale_to_remove, confirm_delete_history,
                   date_to_delete, current_order, menus_cache, commitVars>>

RemoveCancel ==
    /\ RemoveConfirmShown
    /\ confirm_remove_sale' = FALSE
    /\ error' = NoError
    /\ UNCHANGED <<storeVars, clockVars, session_keys, confirm_clear_log,
                   confirm_end_day, sale_to_remove, confirm_delete_history,
                   date_to_delete, current_order, live_sales_df, menus_cache,
                   commitVars>>

\* Clear All of Today's Sales
ClearAll ==
    /\ TrackerShown
    /\ confirm_clear_log' = TRUE
    /\ error' = NoError
    /\ UNCHANGED <<storeVars, clockVars, session_keys, confirm_remove_sale,
                   confirm_end_day, sale_to_remove, confirm_delete_history,
                   date_to_delete, current_order, live_sales_df, menus_cache,
                   commitVars>>

\* Yes, Clear Everything
ClearYes(store_ok) ==
    /\ TrackerShown
    /\ confirm_clear_log
    /\ IF store_ok
       THEN /\ sales' = clear_live_sales(sales)
            /\ live_sales_df' = {}
            /\ confirm_clear_log' = FALSE
       ELSE UNCHANGED <<sales, live_sales_df, confirm_clear_log>>
    /\ error' = IF store_ok THEN NoError ELSE Raised("clear_live_sales", StoreUnavailable)
    /\ UNCHANGED <<menus, expenses, clockVars, session_keys, confirm_remove_sale,
                   confirm_end_day, sale_to_remove, confirm_delete_history,
                   date_to_delete, current_order, menus_cache, commitVars>>

ClearCancel ==
    /\ TrackerShown
    /\ confirm_clear_log
    /\ confirm_clear_log' = FALSE
    /\ error' = NoError
    /\ UNCHANGED <<storeVars, clockVars, session_keys, confirm_remove_sale,
                   confirm_end_day, sale_to_remove, confirm_delete_history,
                   date_to_delete, current_order, live_sales_df, menus_cache,
                   commitVars>>

\* ------------------------------------------------------------- end of day

\* End Day & Save Sales
EndDay ==
    /\ TrackerShown
    /\ confirm_end_day' = TRUE
    /\ error' = NoError
    /\ UNCHANGED <<storeVars, clockVars, session_keys, confirm_remove_sale,
                   confirm_clear_log, sale_to_remove, confirm_delete_history,
                   date_to_delete, current_order, live_sales_df, menus_cache,
                   commitVars>>

\* mutant: the archive runs on the first click, without the confirmation
EndDayYes_unconfirmed(store_ok) ==
    /\ TrackerShown
    /\ IF store_ok
       THEN /\ sales' = archive_live_sales(sales)
            /\ live_sales_df' = {}
            /\ confirm_end_day' = FALSE
       ELSE /\ sales' = archive_live_sales_failed(sales)
            /\ UNCHANGED <<live_sales_df, confirm_end_day>>
    /\ error' = IF store_ok THEN NoError ELSE Raised("archive_live_sales", StoreUnavailable)
    /\ UNCHANGED <<menus, expenses, clockVars, session_keys, confirm_remove_sale,
                   confirm_clear_log, sale_to_remove, confirm_delete_history,
                   date_to_delete, current_order, menus_cache, commitVars>>

\* Yes, End the Day: db.archive_live_sales(), then the cache is emptied
EndDayYes(store_ok) ==
    /\ TrackerShown
    /\ confirm_end_day
    /\ IF store_ok
       THEN /\ sales' = archive_live_sales(sales)
            /\ live_sales_df' = {}
            /\ confirm_end_day' = FALSE
       ELSE /\ sales' = archive_live_sales_failed(sales)
            /\ UNCHANGED <<live_sales_df, confirm_end_day>>
    /\ error' = IF store_ok THEN NoError ELSE Raised("archive_live_sales", StoreUnavailable)
    /\ UNCHANGED <<menus, expenses, clockVars, session_keys, confirm_remove_sale,
                   confirm_clear_log, sale_to_remove, confirm_delete_history,
                   date_to_delete, current_order, menus_cache, commitVars>>

EndDayCancel ==
    /\ TrackerShown
    /\ confirm_end_day
    /\ confirm_end_day' = FALSE
    /\ error' = NoError
    /\ UNCHANGED <<storeVars, clockVars, session_keys, confirm_remove_sale,
                   confirm_clear_log, sale_to_remove, confirm_delete_history,
                   date_to_delete, current_order, live_sales_df, menus_cache,
                   commitVars>>

\* Yes, End the Day confirmed in another browser session: the store is
\* written, this session's st.session_state is not (with no live sale the
\* UPDATE changes no row, a stuttering step)
OtherSessionEndDay ==
    /\ \E r \in sales : r.status = "live"
    /\ sales' = archive_live_sales(sales)
    /\ UNCHANGED <<menus, expenses, clockVars, session_keys, confirmVars,
                   current_order, live_sales_df, menus_cache, commitVars, error>>

\* -------------------------------------------------- Menu Management page

\* mutant: a price replacement is carried into the live sales of the item
AddToMenu_reprices(item, price) ==
    /\ MenuPageShown
    /\ menus' = add_menu_item(menus, item, price, "Offline")
    /\ menus_cache' = add_menu_item(menus_cache, item, price, "Offline")
    /\ sales' = {IF r.item_name = item /\ r.channel = "Offline" /\ r.status = "live"
                 THEN [r EXCEPT !.price_per_item = price,
                                !.total_sale = price * r.quantity]
                 ELSE r : r \in sales}
    /\ error' = NoError
    /\ UNCHANGED <<expenses, clockVars, session_keys, confirmVars,
                   current_order, live_sales_df, commitVars>>

\* Add to Menu (the page edits the Offline menu only)
AddToMenu(item, price) ==
    /\ MenuPageShown
    /\ menus' = add_menu_item(menus, item, price, "Offline")
    /\ menus_cache' = add_menu_item(menus_cache, item, price, "Offline")
    /\ error' = NoError
    /\ UNCHANGED <<sales, expenses, clockVars, session_keys, confirmVars,
                   current_order, live_sales_df, commitVars>>

\* Remove from Menu: the selectbox offers the cached Offline menu's keys
RemoveFromMenu(item) ==
    /\ MenuPageShown
    /\ item \in DOMAIN menus_cache["Offline"]
    /\ menus' = delete_menu_item(menus, item, "Offline")
    /\ menus_cache' = delete_menu_item(menus_cache, item, "Offline")
    /\ error' = NoError
    /\ UNCHANGED <<sales, expenses, clockVars, session_keys, confirmVars,
                   current_order, live_sales_df, commitVars>>

\* Add to Menu submitted in another browser session: the store's table is
\* written, this session's st.session_state.menus is not
OtherSessionAddToMenu(item, price) ==
    /\ menus' = add_menu_item(menus, item, price, "Offline")
    /\ UNCHANGED <<sales, expenses, clockVars, session_keys, confirmVars,
                   current_order, live_sales_df, menus_cache, commitVars, error>>

\* Permanently Delete All Sales for the day selected among the archived dates
PermanentlyDelete(d) ==
    /\ MenuPageShown
    /\ d \in SeqToSet(get_archived_dates(sales))
    /\ confirm_delete_history' = TRUE
    /\ date_to_delete' = d
    /\ error' = NoError
    /\ UNCHANGED <<storeVars, clockVars, session_keys, confirm_remove_sale,
                   confirm_clear_log, confirm_end_day, sale_to_remove,
                   current_order, live_sales_df, menus_cache, commitVars>>

\* the confirmation is rendered while the selected day is date_to_delete
DeleteHistoryShown ==
    /\ MenuPageShown
    /\ confirm_delete_history
    /\ date_to_delete \in SeqToSet(get_archived_dates(sales))

\* Yes, Permanently Delete (the expense deletion is attempted and its
\* failure ignored)
DeleteHistoryYes ==
    /\ DeleteHistoryShown
    /\ sales' = delete_archived_sales_by_date(sales, date_to_delete)
    /\ expenses' = delete_archived_expenses_by_date(expenses, date_to_delete)
    /\ confirm_delete_history' = FALSE
    /\ error' = NoError
    /\ UNCHANGED <<menus, clockVars, session_keys, confirm_remove_sale,
                   confirm_clear_log, confirm_end_day, sale_to_remove,
                   date_to_delete, current_order, live_sales_df, menus_cache,
                   commitVars>>

DeleteHistoryCancel ==
    /\ DeleteHistoryShown
    /\ confirm_delete_history' = FALSE
    /\ error' = NoError
    /\ UNCHANGED <<storeVars, clockVars, session_keys, confirm_remove_sale,
                   confirm_clear_log, confirm_end_day, sale_to_remove,
                   date_to_delete, current_order, live_sales_df, menus_cache,
                   commitVars>>

\* ---------------------------------------------------------------- expenses

\* addExpense(amount, description): a live expense dated today
AddExpense(amount) ==
    /\ pc = "idle"
    /\ Cardinality(expenses) < MaxExpenses
    /\ expenses' = add_expense(expenses, amount, today)
    /\ error' = NoError
    /\ UNCHANGED <<sales, menus, clockVars, session_keys, confirmVars,
                   current_order, live_sales_df, menus_cache, commitVars>>

\* ------------------------------------------------- calls of the ledger API
\* database.py's sales functions called by any page of any session.

\* what a caller passes to db.log_sale: Timestamp is the clock's reading; the
\* last dict carries a total that is not quantity * price
SaleInputs ==
    {[Timestamp |-> now, Item |-> "Tea", Quantity |-> 1, Price |-> 20,
      Total |-> 20, Channel |-> "Offline"],
     [Timestamp |-> now, Item |-> "Tea", Quantity |-> 2, Price |-> 0,
      Total |-> 0, Channel |-> "Offline"],
     [Timestamp |-> now, Item |-> "Coffee", Quantity |-> 2, Price |-> 30,
      Total |-> 60, Channel |-> "Online"],
     [Timestamp |-> now, Item |-> "Tea", Quantity |-> 2, Price |-> 20,
      Total |-> 20, Channel |-> "Offline"]}

DbLogSale(sale_dict) ==
    /\ sales' = log_sale(sales, sale_dict, today)
    /\ error' = IF log_sale_fails(sales, sale_dict)
                THEN Raised("log_sale", DuplicateKey) ELSE NoError
    /\ UNCHANGED <<menus, expenses, clockVars, session_keys, confirmVars,
                   current_order, live_sales_df, menus_cache, commitVars>>

DbDeleteSale(ts) ==
    /\ sales' = delete_sale_by_timestamp(sales, ts)
    /\ error' = NoError
    /\ UNCHANGED <<menus, expenses, clockVars, session_keys, confirmVars,
                   current_order, live_sales_df, menus_cache, commitVars>>

DbClearLive ==
    /\ sales' = clear_live_sales(sales)
    /\ error' = NoError
    /\ UNCHANGED <<menus, expenses, clockVars, session_keys, confirmVars,
                   current_order, live_sales_df, menus_cache, commitVars>>

DbArchiveLive ==
    /\ sales' = archive_live_sales(sales)
    /\ error' = NoError
    /\ UNCHANGED <<menus, expenses, clockVars, session_keys, confirmVars,
                   current_order, live_sales_df, menus_cache, commitVars>>

DbDeleteArchived(d) ==
    /\ sales' = delete_archived_sales_by_date(sales, d)
    /\ error' = NoError
    /\ UNCHANGED <<menus, expenses, clockVars, session_keys, confirmVars,
                   current_order, live_sales_df, menus_cache, commitVars>>

\* ------------------------------------------------------------------ Next

\* The Tracker page, on the menu the session starts with.
Next ==
    \/ Tick
    \/ NextDay
    \/ OpenTracker
    \/ NewSession
    \/ \E ch \in Channels, item \in Items : Plus(ch, item)
    \/ \E ch \in Channels, item \in Items : MenuRemove(ch, item)
    \/ \E ch \in Channels, item \in Items : SummaryRemove(ch, item)
    \/ \E ch \in Channels : ClearOrder(ch)
    \/ \E ch \in Channels : LogOrderClick(ch)
    \/ \E store_ok \in BOOLEAN : LogOrderLine(store_ok)
    \/ \E ts \in Times : RemoveSelectedSale(ts)
    \/ \E store_ok \in BOOLEAN : RemoveYes(store_ok)
    \/ RemoveCancel
    \/ ClearAll
    \/ \E store_ok \in BOOLEAN : ClearYes(store_ok)
    \/ ClearCancel
    \/ EndDay
    \/ \E store_ok \in BOOLEAN : EndDayYes(store_ok)
    \/ EndDayCancel

Spec == Init /\ [][Next]_vars

\* The Tracker's commit, remove-sale, clear-log and day-close with a menu
\* that is edited on the Menu Management page (items added, repriced and
\* removed), all within one reading of the clock.
NextMenu ==
    \/ OpenTracker
    \/ OpenMenuManagement
    \/ \E ch \in Channels, item \in Items : Plus(ch, item)
    \/ \E ch \in Channels : LogOrderClick(ch)
    \/ \E store_ok \in BOOLEAN : LogOrderLine(store_ok)
    \/ \E ts \in Times : RemoveSelectedSale(ts)
    \/ \E store_ok \in BOOLEAN : RemoveYes(store_ok)
    \/ ClearAll
    \/ \E store_ok \in BOOLEAN : ClearYes(store_ok)
    \/ EndDay
    \/ \E store_ok \in BOOLEAN : EndDayYes(store_ok)
    \/ \E item \in Items, price \in Prices : AddToMenu(item, price)
    \/ \E item \in Items : RemoveFromMenu(item)

SpecMenu == InitFresh /\ [][NextMenu]_vars

\* The sales ledger under every sequence of calls of its functions.
NextLedger ==
    \/ Tick
    \/ NextDay
    \/ \E sale_dict \in SaleInputs : DbLogSale(sale_dict)
    \/ \E ts \in Times : DbDeleteSale(ts)
    \/ DbClearLive
    \/ DbArchiveLive
    \/ \E d \in Days : DbDeleteArchived(d)

SpecLedger == Init /\ [][NextLedger]_vars

\* The Tracker's day-close next to the expense ledger.
NextExpenses ==
    \/ Tick
    \/ NextDay
    \/ OpenTracker
    \/ \E ch \in Channels, item \in Items : Plus(ch, item)
    \/ \E ch \in Channels : LogOrderClick(ch)
    \/ \E store_ok \in BOOLEAN : LogOrderLine(store_ok)
    \/ EndDay
    \/ \E store_ok \in BOOLEAN : EndDayYes(store_ok)
    \/ EndDayCancel
    \/ \E amount \in Amounts : AddExpense(amount)

SpecExpenses == Init /\ [][NextExpenses]_vars

\* The order builder and the Log Order loop on a menu of two items, so that
\* an order has several lines.
NextCommit ==
    \/ Tick
    \/ OpenTracker
    \/ \E ch \in Channels, item \in Items : Plus(ch, item)
    \/ \E ch \in Channels, item \in Items : MenuRemove(ch, item)
    \/ \E ch \in Channels, item \in Items : SummaryRemove(ch, item)
    \/ \E ch \in Channels : ClearOrder(ch)
    \/ \E ch \in Channels : LogOrderClick(ch)
    \/ \E store_ok \in BOOLEAN : LogOrderLine(store_ok)

SpecCommit == InitTwoItems /\ [][NextCommit]_vars

\* The Tracker's commit while the menu is edited from another session, all
\* within one reading of the clock.
NextPrice ==
    \/ OpenTracker
    \/ \E ch \in Channels, item \in Items : Plus(ch, item)
    \/ \E ch \in Channels : LogOrderClick(ch)
    \/ \E store_ok \in BOOLEAN : LogOrderLine(store_ok)
    \/ \E item \in Items, price \in Prices : OtherSessionAddToMenu(item, price)

SpecPrice == Init /\ [][NextPrice]_vars

\* One session of the Tracker as the only writer of the store: commit,
\* remove-sale, clear-log and day-close, and the cached live view.
NextCache ==
    \/ Tick
    \/ NextDay
    \/ OpenTracker
    \/ \E ch \in Channels, item \in Items : Plus(ch, item)
    \/ \E ch \in Channels : LogOrderClick(ch)
    \/ \E store_ok \in BOOLEAN : LogOrderLine(store_ok)
    \/ LogOrderLineOverMidnight
    \/ \E ts \in Times : RemoveSelectedSale(ts)
    \/ \E store_ok \in BOOLEAN : RemoveYes(store_ok)
    \/ ClearAll
    \/ \E store_ok \in BOOLEAN : ClearYes(store_ok)
    \/ EndDay
    \/ \E store_ok \in BOOLEAN : EndDayYes(store_ok)

SpecCache == Init /\ [][NextCache]_vars

\* The history section of the Menu Management page over a ledger written
\* through database.py (sales logged and archived by the Tracker of any
\* session, archived days deleted from this or another session).
NextHistory ==
    \/ Tick
    \/ NextDay
    \/ \E sale_dict \in SaleInputs : DbLogSale(sale_dict)
    \/ DbArchiveLive
    \/ \E d \in Days : DbDeleteArchived(d)
    \/ OpenMenuManagement
    \/ \E d \in Days : PermanentlyDelete(d)
    \/ DeleteHistoryYes
    \/ DeleteHistoryCancel

SpecHistory == Init /\ [][NextHistory]_vars

\* The Tracker's corrections of the live ledger (remove-sale, clear-log)
\* next to commit and day-close, within one day.
NextCorrections ==
    \/ Tick
    \/ OpenTracker
    \/ \E ch \in Channels, item \in Items : Plus(ch, item)
    \/ \E ch \in Channels : LogOrderClick(ch)
    \/ \E store_ok \in BOOLEAN : LogOrderLine(store_ok)
    \/ \E ts \in Times : RemoveSelectedSale(ts)
    \/ \E store_ok \in BOOLEAN : RemoveYes(store_ok)
    \/ ClearAll
    \/ \E store_ok \in BOOLEAN : ClearYes(store_ok)
    \/ EndDay
    \/ \E store_ok \in BOOLEAN : EndDayYes(store_ok)

SpecCorrections == Init /\ [][NextCorrections]_vars

\* The order builders of both tabs and the Log Order loop, within one
\* reading of the clock.
NextBuilder ==
    \/ OpenTracker
    \/ \E ch \in Channels, item \in Items : Plus(ch, item)
    \/ \E ch \in Channels, item \in Items : MenuRemove(ch, item)
    \/ \E ch \in Channels, item \in Items : SummaryRemove(ch, item)
    \/ \E ch \in Channels : ClearOrder(ch)
    \/ \E ch \in Channels : LogOrderClick(ch)
    \/ \E store_ok \in BOOLEAN : LogOrderLine(store_ok)

SpecBuilder == InitBothChannels /\ [][NextBuilder]_vars

\* The Tracker's store calls with a store that can fail: the default menu
\* view, the Log Order loop and the day-close.
NextFailures ==
    \/ Tick
    \/ OpenTracker
    \/ \E ch \in Channels : TopItemsQuery(ch)
    \/ \E store_ok \in BOOLEAN : TopItemsFirst(store_ok)
    \/ \E store_ok \in BOOLEAN : TopItemsFallback(store_ok)
    \/ \E ch \in Channels, item \in Items : Plus(ch, item)
    \/ \E ch \in Channels : LogOrderClick(ch)
    \/ \E store_ok \in BOOLEAN : LogOrderLine(store_ok)
    \/ EndDay
    \/ \E store_ok \in BOOLEAN : EndDayYes(store_ok)

SpecFailures == Init /\ [][NextFailures]_vars

\* The Log Order loop of a multi-line order while another session closes
\* the day.
NextInterleaved ==
    \/ Tick
    \/ OpenTracker
    \/ \E ch \in Channels, item \in Items : Plus(ch, item)
    \/ \E ch \in Channels : LogOrderClick(ch)
    \/ \E store_ok \in BOOLEAN : LogOrderLine(store_ok)
    \/ OtherSessionEndDay

SpecInterleaved == InitTwoItems /\ [][NextInterleaved]_vars

\* The Tracker's corrections while another session closes the day.
NextOtherClose ==
    \/ Tick
    \/ OpenTracker
    \/ \E ch \in Channels, item \in Items : Plus(ch, item)
    \/ \E ch \in Channels : LogOrderClick(ch)
    \/ \E store_ok \in BOOLEAN : LogOrderLine(store_ok)
    \/ \E ts \in Times : RemoveSelectedSale(ts)
    \/ \E store_ok \in BOOLEAN : RemoveYes(store_ok)
    \/ RemoveCancel
    \/ OtherSessionEndDay

SpecOtherClose == Init /\ [][NextOtherClose]_vars

\* The default menu view of the Tracker while the menu is edited on the
\* Menu Management page and sales are logged, within one reading of the
\* clock per sale.
NextDefaultView ==
    \/ Tick
    \/ OpenTracker
    \/ OpenMenuManagement
    \/ \E ch \in Channels : TopItemsQuery(ch)
    \/ \E store_ok \in BOOLEAN : TopItemsFirst(store_ok)
    \/ \E store_ok \in BOOLEAN : TopItemsFallback(store_ok)
    \/ \E ch \in Channels, item \in Items : Plus(ch, item)
    \/ \E ch \in Channels : LogOrderClick(ch)
    \/ \E store_ok \in BOOLEAN : LogOrderLine(store_ok)
    \/ \E item \in Items, price \in Prices : AddToMenu(item, price)
    \/ \E item \in Items : RemoveFromMenu(item)

SpecDefaultView == InitFresh /\ [][NextDefaultView]_vars

\* ---------------------------------------------------------------- claims

Live(s) == get_sales(s, "live", NoStr, NoDate, NoDate)
Archived(s) == get_sales(s, "archived", NoStr, NoDate, NoDate)
AsArchived(r) == [r EXCEPT !.status = "archived"]

\* C1: after a completed day-close no sale is live, and every sale that was
\* live before it is present as archived with all its other fields as before.
ArchivalComplete ==
    [][EndDayYes(TRUE) =>
        /\ Live(sales') = {}
        /\ \A r \in Live(sales) : AsArchived(r) \in sales' /\ r \notin sales']_vars

ArchivalCompleteWitness ==
    /\ "live_sales_df" \in session_keys
    /\ ~confirm_end_day
    /\ Live(sales) = {}
    /\ Cardinality(Archived(sales)) >= 2

\* C2: in every step a sale that is archived stays archived (or is deleted),
\* and every status in the ledger is live or archived.
StatusMonotone ==
    [][\A r \in sales : \A q \in sales' :
          q.timestamp = r.timestamp =>
              /\ q.status \in {"live", "archived"}
              /\ (r.status = "archived" => q.status = "archived")]_vars

StatusMonotoneWitness ==
    /\ \E r \in sales : r.status = "archived"
    /\ \E r \in sales : r.status = "live"

\* C3: every sale is live or archived; the live and the archived query
\* results share no timestamp and together are the whole ledger.
LiveArchivedPartition ==
    /\ \A r \in sales : r.status \in {"live", "archived"}
    /\ Timestamps(Live(sales)) \cap Timestamps(Archived(sales)) = {}
    /\ Live(sales) \cup Archived(sales) = sales

LiveArchivedPartitionWitness ==
    /\ Live(sales) # {}
    /\ Archived(sales) # {}
    /\ Cardinality(sales) = MaxTime

\* C4: a day-close deletes nothing: the timestamps of the ledger are the
\* same after it, and the sales archived before it are unchanged.
ArchiveDeletesNothing ==
    [][EndDayYes(TRUE) =>
        /\ Timestamps(sales') = Timestamps(sales)
        /\ Cardinality(sales') = Cardinality(sales)
        /\ Archived(sales) \subseteq sales']_vars

ArchiveDeletesNothingWitness ==
    /\ ~confirm_end_day
    /\ Live(sales) = {}
    /\ \E r \in Archived(sales) : \E q \in Archived(sales) : r.sale_date < q.sale_date

CloseDayListsToday ==
    [][EndDayYes(TRUE) => today \in SeqToSet(get_archived_dates(sales'))]_vars

\* C6 amended: after a completed day-close the archived dates include the
\* sale_date of every sale that was live before it.
CloseDayListsLiveDates ==
    [][EndDayYes(TRUE) =>
        \A r \in Live(sales) : r.sale_date \in SeqToSet(get_archived_dates(sales'))]_vars

CloseDayListsLiveDatesWitness ==
    /\ ~confirm_end_day
    /\ Live(sales) = {}
    /\ today = MaxDay
    /\ get_archived_dates(sales) = <<today - 1>>

\* C7: after a completed day-close no expense is live.
CloseDayArchivesExpenses ==
    [][EndDayYes(TRUE) => \A x \in expenses' : x.status # "live"]_vars

\* C8: a sale is archived only in a step that starts with confirm_end_day
\* set, which only End Day & Save Sales sets; the completed archive and
\* Cancel reset it; Cancel leaves the ledger and the cached view alone.
ConfirmThenExecute ==
    [][/\ (\E r \in Live(sales) : AsArchived(r) \in sales') => confirm_end_day
       /\ (~confirm_end_day /\ confirm_end_day') => EndDay
       /\ (EndDayYes(TRUE) \/ EndDayCancel) => ~confirm_end_day'
       /\ EndDayCancel => (sales' = sales /\ live_sales_df' = live_sales_df)]_vars

ConfirmThenExecuteWitness ==
    /\ "live_sales_df" \in session_keys
    /\ ~confirm_end_day
    /\ live_sales_df = {}
    /\ Archived(sales) # {}
    /\ error = NoError

\* C9: no two sales share a timestamp; a log_sale with a new timestamp adds
\* one live sale, one with a timestamp in the ledger fails and changes nothing.
UniqueTimestamps(s) ==
    \A r \in s : \A q \in s : r.timestamp = q.timestamp => r = q

AppendOrDuplicateKey ==
    /\ [](UniqueTimestamps(sales))
    /\ [][\A ok \in BOOLEAN : LogOrderLine(ok) =>
            IF now \in Timestamps(sales)
            THEN /\ sales' = sales
                 /\ ok => error' = Raised("log_sale", DuplicateKey)
            ELSE ok => /\ Cardinality(sales' \ sales) = 1
                       /\ sales \subseteq sales'
                       /\ \A r \in sales' \ sales :
                            r.status = "live" /\ r.timestamp = now]_vars

AppendOrDuplicateKeyWitness ==
    /\ error = Raised("log_sale", DuplicateKey)
    /\ \E r \in sales : r.timestamp = now /\ r.status = "archived"

\* C10: every sale in the ledger has total_sale = quantity * price_per_item.
TotalSaleInvariant ==
    \A r \in sales : r.total_sale = r.quantity * r.price_per_item

TotalSaleInvariantWitness ==
    \E r \in sales :
        /\ r.quantity = 2
        /\ r.price_per_item = 30
        /\ r.status = "archived"
        /\ DictGet(menus[r.channel], r.item_name, 0) = 20

\* C11 as stated: a log_sale of a record whose total_sale is not
\* quantity * price_per_item fails with InvariantViolation and writes nothing.
InvariantViolation == "InvariantViolation"

Inconsistent(sale_dict) == sale_dict.Total # sale_dict.Quantity * sale_dict.Price

WriteChecksTotal ==
    [][\A sale_dict \in SaleInputs :
          (DbLogSale(sale_dict) /\ Inconsistent(sale_dict)) =>
              /\ sales' = sales
              /\ error' = Raised("log_sale", InvariantViolation)]_vars

\* C12: when the Log Order loop completes, the channel's order is empty and
\* the ledger is the ledger at the click plus exactly one live sale per line
\* of the order (lines have distinct items), each with the line's quantity
\* and the tab's channel; every sale of the ledger at the click is unchanged.
LineWritten(l, ch, s) ==
    \E r \in s :
        /\ r.item_name = l.item
        /\ r.quantity = l.qty
        /\ r.channel = ch
        /\ r.status = "live"

CommitThenClear ==
    [][\A ok \in BOOLEAN :
          (LogOrderLine(ok) /\ pc' = "idle" /\ error' = NoError) =>
              LET order == current_order[log_ch]
                  new == sales' \ ledger_before
              IN /\ current_order'[log_ch] = <<>>
                 /\ ledger_before \subseteq sales'
                 /\ Cardinality(new) = Len(order)
                 /\ \A i \in DOMAIN order : \A j \in DOMAIN order :
                        order[i].item = order[j].item => i = j
                 /\ \A i \in DOMAIN order : LineWritten(order[i], log_ch, new)]_vars

CommitThenClearWitness ==
    /\ pc = "idle"
    /\ error = NoError
    /\ current_order["Offline"] = <<>>
    /\ \E r \in Live(sales) : \E q \in Live(sales) :
          /\ r.item_name = "Tea" /\ r.quantity = 2 /\ r.channel = "Offline"
          /\ q.item_name = "Coffee" /\ q.quantity = 1 /\ q.channel = "Offline"
          /\ r.timestamp < q.timestamp

\* C14: when db.log_sale fails on a line, the lines written before it stay
\* in the ledger as live sales and in the cached view, nothing is taken back,
\* the run ends with log_sale's error and the order is not cleared.
PartialCommitStays ==
    [][\A ok \in BOOLEAN :
          (LogOrderLine(ok) /\ error' # NoError) =>
              LET order == current_order[log_ch]
                  written == Len(order) - Len(lines)
                  new == sales \ ledger_before
              IN /\ sales' = sales
                 /\ live_sales_df' = live_sales_df
                 /\ current_order' = current_order
                 /\ error'[1] = "log_sale"
                 /\ ledger_before \subseteq sales'
                 /\ Cardinality(new) = written
                 /\ new \subseteq Live(sales') \cap live_sales_df'
                 /\ \A i \in 1..written : LineWritten(order[i], log_ch, new)]_vars

PartialCommitStaysWitness ==
    /\ pc = "idle"
    /\ error = Raised("log_sale", StoreUnavailable)
    /\ Len(current_order["Offline"]) = 2
    /\ Cardinality(sales) = 1
    /\ \E r \in Live(sales) \cap live_sales_df :
          /\ r.item_name = current_order["Offline"][1].item
          /\ r.quantity = current_order["Offline"][1].qty
          /\ r.timestamp < now

\* C13 as stated: every sale a commit writes carries the price the store's
\* menus table holds for its item and channel at that moment.
CommitUsesCatalogPrice ==
    [][\A ok \in BOOLEAN :
          LogOrderLine(ok) =>
              \A r \in sales' \ sales :
                  r.item_name \in DOMAIN menus[r.channel] =>
                      r.price_per_item = menus[r.channel][r.item_name]]_vars

\* C15 as stated: in a session that has loaded it, the cached live view is
\* exactly the set of live sales of the store, field by field.
CacheMatchesStore ==
    "live_sales_df" \in session_keys => live_sales_df = Live(sales)

\* C16: delete_sale_by_timestamp on a timestamp no sale has raises nothing
\* and leaves the ledger as it was; a second call with the same timestamp
\* right after any call changes nothing more.
DeleteAbsentIsNoOp ==
    [][\A ts \in Times :
          DbDeleteSale(ts) =>
              /\ error' = NoError
              /\ (ts \notin Timestamps(sales) => sales' = sales)
              /\ delete_sale_by_timestamp(sales', ts) = sales']_vars

DeleteAbsentIsNoOpWitness ==
    /\ error = NoError
    /\ sales # {}
    /\ \E ts \in Times : ts < now /\ ts \notin Timestamps(sales)

\* C17: delete_sale_by_timestamp on a timestamp in the ledger removes the one
\* sale with that timestamp, live or archived, and no other sale changes.
DeleteRemovesExactlyOne ==
    [][\A ts \in Times :
          (DbDeleteSale(ts) /\ ts \in Timestamps(sales)) =>
              /\ sales' \subseteq sales
              /\ Cardinality(sales \ sales') = 1
              /\ \A r \in sales \ sales' : r.timestamp = ts
              /\ ts \notin Timestamps(sales')]_vars

DeleteRemovesExactlyOneWitness ==
    /\ Cardinality(sales) = 1
    /\ Live(sales) # {}
    /\ 1 \notin Timestamps(sales)
    /\ \A r \in sales : r.sale_date = MaxDay

\* C18: clear_live_sales, called by Yes, Clear Everything, leaves no live
\* sale and leaves the archived sales, with all their fields, exactly as
\* they were.
ClearRemovesLiveOnly ==
    [][ClearYes(TRUE) =>
          /\ Live(sales) # {} => sales' # sales
          /\ Live(sales') = {}
          /\ Archived(sales') = Archived(sales)
          /\ sales' \subseteq sales]_vars

\* the sale selected for removal is gone while its confirmation is still
\* pending (only the clear deletes without resetting it) and the archive is kept
ClearRemovesLiveOnlyWitness ==
    /\ confirm_remove_sale
    /\ ~confirm_clear_log
    /\ sale_to_remove # 0
    /\ sale_to_remove \notin Timestamps(sales)
    /\ Live(sales) = {}
    /\ Archived(sales) # {}

\* C19: delete_archived_sales_by_date(d), called directly or by Yes,
\* Permanently Delete, removes the archived sales dated d and nothing else:
\* live sales (dated d or not) and archived sales of other dates stay as they
\* are, nothing changes when no archived sale is dated d, and d is not among
\* the archived dates afterwards.
DeleteArchivedByDateFrame ==
    [][\A d \in Days :
          (DbDeleteArchived(d) \/ (DeleteHistoryYes /\ date_to_delete = d)) =>
              /\ error' = NoError
              /\ Live(sales') = Live(sales)
              /\ Archived(sales') = {r \in Archived(sales) : r.sale_date # d}
              /\ (d \notin SeqToSet(get_archived_dates(sales)) => sales' = sales)
              /\ d \notin SeqToSet(get_archived_dates(sales'))]_vars

DeleteArchivedByDateFrameWitness ==
    /\ "menus" \in session_keys
    /\ ~confirm_delete_history
    /\ date_to_delete \in Days
    /\ date_to_delete \notin SeqToSet(get_archived_dates(sales))
    /\ \E r \in Live(sales) : r.sale_date = date_to_delete

\* C20: the x buttons take the item out of the order whatever its quantity,
\* leave the other lines and the other channel's order as they are, and a
\* second removal of the same item changes nothing.
RemoveDeletesEntirely ==
    [][\A ch \in Channels : \A item \in Items :
          (MenuRemove(ch, item) \/ SummaryRemove(ch, item)) =>
              LET o == current_order[ch]
                  o2 == current_order'[ch]
              IN /\ item \notin OrderItems(o2)
                 /\ o2 = SelectSeq(o, LAMBDA l : l.item # item)
                 /\ \A other \in Items \ {item} : OrderQty(o2, other) = OrderQty(o, other)
                 /\ \A c \in Channels \ {ch} : current_order'[c] = current_order[c]
                 /\ OrderPop(o2, item) = o2]_vars

RemoveDeletesEntirelyWitness ==
    /\ pc = "idle"
    /\ sales = {}
    /\ OrderQty(current_order["Offline"], "Coffee") = MaxQty
    /\ OrderItems(current_order["Offline"]) = {"Coffee"}

\* C21: a tab's order is changed, outside the Log Order loop, only by +, x
\* and Clear Order of that tab, and such a step leaves the ledger, the menus,
\* the cached live view and the other tab's order as they are; the + button
\* raises the item's pending quantity by one (from 0 when the item is not in
\* the order) and leaves the other lines as they are.
BuilderEdit(ch) ==
    \/ \E item \in Items : Plus(ch, item)
    \/ \E item \in Items : MenuRemove(ch, item)
    \/ \E item \in Items : SummaryRemove(ch, item)
    \/ ClearOrder(ch)

AddIncrementsByOne ==
    [][\A ch \in Channels :
          (pc = "idle" /\ current_order'[ch] # current_order[ch]) =>
              /\ BuilderEdit(ch)
              /\ sales' = sales
              /\ menus' = menus
              /\ live_sales_df' = live_sales_df
              /\ \A c \in Channels \ {ch} : current_order'[c] = current_order[c]
              /\ \A item \in Items :
                    Plus(ch, item) =>
                        /\ item \in DOMAIN menus_cache[ch]
                        /\ OrderQty(current_order'[ch], item)
                              = OrderQty(current_order[ch], item) + 1
                        /\ \A other \in Items \ {item} :
                              OrderQty(current_order'[ch], other)
                                = OrderQty(current_order[ch], other)]_vars

AddIncrementsByOneWitness ==
    /\ OrderQty(current_order["Offline"], "Tea") = MaxQty
    /\ OrderQty(current_order["Offline"], "Coffee") = 1
    /\ OrderQty(current_order["Online"], "Tea") = 1
    /\ live_sales_df # {}
    /\ sales = live_sales_df

\* C22: the menus table is changed only by Add to Menu (a new item or a
\* price replacement) and Remove from Menu, and such a step leaves every sale
\* of the ledger as it is.
MenuEditsKeepSales ==
    [][menus' # menus =>
          /\ \/ \E item \in Items : \E price \in Prices : AddToMenu(item, price)
             \/ \E item \in Items : RemoveFromMenu(item)
          /\ sales' = sales]_vars

MenuEditsKeepSalesWitness ==
    /\ \E r \in Live(sales) :
          /\ r.item_name \notin DOMAIN menus[r.channel]
          /\ r.price_per_item = 30
          /\ r.total_sale = 30 * r.quantity
    /\ DOMAIN menus["Offline"] # {}

\* C23 as stated: a store call that fails ends the run with its error; no
\* further statement is sent in its place.
StoreFailureSurfaces ==
    [][(\/ LogOrderLine(FALSE)
        \/ EndDayYes(FALSE)
        \/ TopItemsFirst(FALSE)) =>
            /\ pc' = "idle"
            /\ error' # NoError]_vars

\* C24: get_archived_dates returns the sale_date values of the archived
\* sales, each once, in descending order; a date that only live sales carry
\* is not returned.
ArchivedDatesDistinctDesc ==
    LET q == get_archived_dates(sales)
    IN /\ SeqToSet(q) = {r.sale_date : r \in {x \in sales : x.status = "archived"}}
       /\ \A i \in DOMAIN q : \A j \in DOMAIN q : i < j => q[i] > q[j]
       /\ \A r \in sales :
             (r.status = "live" /\ ~\E x \in sales :
                  x.status = "archived" /\ x.sale_date = r.sale_date)
                 => r.sale_date \notin SeqToSet(q)

ArchivedDatesDistinctDescWitness ==
    /\ "menus" \in session_keys
    /\ Len(get_archived_dates(sales)) = MaxDay
    /\ get_archived_dates(sales)[1] = MaxDay

\* C25: get_sales returns the sales that satisfy every filter that is given
\* (status, channel, start_date <= sale_date <= end_date); a filter that is
\* None does not restrict, so with status alone it returns every sale of
\* that status.
StatusFilters == {NoStr, "live", "archived"}
ChannelFilters == {NoStr} \cup Channels
DateFilters == {NoDate} \cup Days

QueryMatchesFilters ==
    \A st \in StatusFilters : \A ch \in ChannelFilters :
    \A d1 \in DateFilters : \A d2 \in DateFilters :
        LET res == get_sales(sales, st, ch, d1, d2)
        IN /\ res \subseteq sales
           /\ \A r \in sales :
                 r \in res <=>
                     /\ (st = NoStr \/ r.status = st)
                     /\ (ch = NoStr \/ r.channel = ch)
                     /\ (d1 = NoDate \/ d1 <= r.sale_date)
                     /\ (d2 = NoDate \/ r.sale_date <= d2)
           /\ (st # NoStr /\ ch = NoStr /\ d1 = NoDate /\ d2 = NoDate)
                 => res = {r \in sales : r.status = st}

QueryMatchesFiltersWitness ==
    \E r \in sales : \E q \in sales :
        /\ r.status = "archived" /\ r.channel = "Offline" /\ r.sale_date = 1
        /\ q.status = "live" /\ q.channel = "Online" /\ q.sale_date = 2
        /\ get_sales(sales, "archived", NoStr, 1, 1) = {r}
        /\ get_sales(sales, "live", "Online", 2, NoDate) = {q}
        /\ get_sales(sales, NoStr, NoStr, NoDate, NoDate) = {r, q}

\* C26: every pending quantity of an order is at least 1, and so is the
\* quantity of every sale the Log Order loop writes.
QuantitiesPositive ==
    /\ \A ch \in Channels : \A i \in DOMAIN current_order[ch] :
          current_order[ch][i].qty >= 1
    /\ \A i \in DOMAIN lines : lines[i].qty >= 1
    /\ \A r \in sales \cup live_sales_df : r.quantity >= 1

QuantitiesPositiveWitness ==
    /\ \E r \in sales : r.quantity = MaxQty
    /\ OrderQty(current_order["Offline"], "Coffee") = 1
    /\ OrderQty(current_order["Online"], "Tea") = MaxQty

\* C27: archive_live_sales run again right after itself changes nothing: the
\* ledger a call leaves has no live sale and is a fixed point of the call.
ArchiveIdempotent ==
    [][DbArchiveLive =>
          /\ Live(sales') = {}
          /\ archive_live_sales(sales') = sales'
          /\ archive_live_sales(archive_live_sales(sales)) = archive_live_sales(sales)]_vars

ArchiveIdempotentWitness ==
    /\ Cardinality(sales) = MaxTime
    /\ Live(sales) = {}
    /\ \E r \in sales : \E q \in sales : r.sale_date # q.sale_date

\* C28 as stated: the sales written by one completed Log Order loop all
\* have the same status when the loop ends.
CommitLinesShareStatus ==
    [][\A ok \in BOOLEAN :
          (LogOrderLine(ok) /\ pc' = "idle" /\ error' = NoError) =>
              \A r \in sales' : \A q \in sales' :
                  (/\ r.timestamp \notin Timestamps(ledger_before)
                   /\ q.timestamp \notin Timestamps(ledger_before))
                      => r.status = q.status]_vars

\* C29 as stated: every sale that Yes, Remove It deletes is live in the
\* store when it is deleted.
RemoveDeletesLiveOnly ==
    [][RemoveYes(TRUE) => \A r \in sales \ sales' : r.status = "live"]_vars

\* C30 as stated: while confirm_remove_sale is set, sale_to_remove is the
\* timestamp of a row of the cached live view.
PendingRemovalIsCached ==
    confirm_remove_sale => sale_to_remove \in Timestamps(live_sales_df)


\* C31 as stated: a sale the Log Order loop writes names an item of the
\* session's menu of its channel and carries that entry's price, never a
\* price and total of 0 for an item no longer in the menu.
CommitItemInSessionMenu ==
    [][(pc = "logging" /\ sales' # sales) =>
          \A r \in sales' \ sales :
              /\ r.item_name \in DOMAIN menus_cache[r.channel]
              /\ r.price_per_item = DictGet(menus_cache[r.channel], r.item_name, 0)
              /\ r.price_per_item # 0
              /\ r.total_sale # 0]_vars


\* C32 as stated: when the default view of a tab with a non-empty menu is
\* rendered, whatever list get_top_items(channel, 5) returns (or [] when
\* the call raises), the filtered menu offers at least one item.
DefaultViewOffersItem ==
    [][\A ch \in Channels :
          TopItemsQuery(ch) =>
              \A top_items \in get_top_items(sales, ch, TopLimit) \cup {<<>>} :
                  \A view \in DefaultViews(menus_cache[ch], top_items) :
                      view # {}]_vars

====
